---- MODULE Spec2Model ----
(***************************************************************************)
(* Model of the substratekitties runtime module                            *)
(* (runtime/src/substratekitties.rs): the seven storage items declared by  *)
(* decl_storage!, the Created event, and the single dispatchable           *)
(* create_kitty.                                                           *)
(*                                                                         *)
(* Storage maps are partial functions: DOMAIN m is the set of keys for     *)
(* which the map has an entry (StorageMap::exists).  u64 values keep a     *)
(* width: U64Max stands for u64::MAX, scaled down so that the overflow     *)
(* branch of checked_add is reached from genesis.                          *)
(***************************************************************************)
EXTENDS Integers, Sequences, FiniteSets

\* ------------------------------------------------------------------ bounds
\* The largest value of a u64 in the model (u64::MAX, scaled down).
U64Max == 3
\* Number of accounts that can sign an extrinsic.
NumAccounts == 2
\* Number of distinct values system::random_seed() can return.
NumSeeds == 2
\* Output range of the narrow (colliding) instance of T::Hashing.
SmallHashRange == 3

\* ------------------------------------------------------------------- types
AccountId == 1 .. NumAccounts
Seeds == 0 .. (NumSeeds - 1)
U64 == 0 .. U64Max

\* Output range of an instance of T::Hashing wide enough to be injective on
\* every encoded (seed, sender, nonce) triple.
WideHashRange == (U64Max + 1) * NumSeeds * NumAccounts

\* The instances of T::Hashing the runtime may be built with.
HashRanges == {SmallHashRange, WideHashRange}

\* system::RawOrigin: Signed(AccountId), Root, Inherent.
Origins ==
    [kind : {"Signed"}, who : AccountId] \cup [kind : {"Root", "Inherent"}, who : {0}]

\* dispatch::Result values of create_kitty.
Ok == "Ok"
ErrBadOrigin == "bad origin: expected to be a signed origin"
ErrOverflow == "Error: Overflow happened when trying to  register a new kitty"
ErrDuplicate == "the kitty coressponding to this ID already exit!"

VARIABLES
    Kitties,          \* map T::Hash => Kitty
    KittyOwner,       \* map T::Hash => Option<T::AccountId>
    OwnedKitty,       \* map T::AccountId => T::Hash
    AllKittiesArray,  \* map u64 => T::Hash
    AllKittiesCount,  \* u64
    AllKittiesIndex,  \* map T::Hash => u64
    Nonce,            \* u64
    events,           \* the Created events deposited so far, oldest first
    call,             \* the origin and random seed of the latest create_kitty
    result,           \* what the latest create_kitty returned
    hashRange,        \* the instance of T::Hashing the runtime is built with
    frame,            \* the statement and locals of the create_kitty in flight
    entry             \* history: storage and events when that call was entered

storage ==
    <<Kitties, KittyOwner, OwnedKitty, AllKittiesArray, AllKittiesCount,
      AllKittiesIndex, Nonce>>

vars ==
    <<Kitties, KittyOwner, OwnedKitty, AllKittiesArray, AllKittiesCount,
      AllKittiesIndex, Nonce, events, call, result, hashRange, frame, entry>>

\* ----------------------------------------------------------------- helpers
\* StorageMap::insert: the map with key k set to v (an existing entry is
\* overwritten).
Insert(map, k, v) ==
    [x \in (DOMAIN map) \cup {k} |-> IF x = k THEN v ELSE map[x]]

\* An Option<T> is the empty set (None) or a singleton (Some(v)).
Unwrap(opt) == CHOOSE v \in opt : TRUE

\* Mutant of ensure_signed: every origin is taken for a signed one.
ensure_signed_AnyOrigin(origin) == {origin.who}

\* ensure_signed(origin): Some(who) for a signed origin, None otherwise.
ensure_signed(origin) ==
    IF origin.kind = "Signed" THEN {origin.who} ELSE {}

\* Mutant of checked_add: a wrapping addition, which never reports overflow.
checked_add_Wrapping(a, b) == {(a + b) % (U64Max + 1)}

\* u64::checked_add: None when the sum does not fit in a u64.
checked_add(a, b) ==
    IF a + b > U64Max THEN {} ELSE {a + b}

\* parity_codec::Encode of the tuple (random_seed, &sender, nonce): the
\* fixed-width fields are concatenated, so distinct triples encode
\* differently.
Encode(seed, sender, nonce) ==
    (nonce * NumSeeds + seed) * NumAccounts + (sender - 1)

\* <T as system::Trait>::Hashing::hash: a deterministic function of the
\* encoded bytes onto a fixed-width range; not injective when the range is
\* narrower than the input space.
Hashing(bytes) == bytes % hashRange

\* random_hash, as computed by create_kitty.
RandomHash(seed, sender, nonce) == Hashing(Encode(seed, sender, nonce))

\* Mutant of KittyOwnerExists: the collision check never fires.
KittyOwnerExists_Never(random_hash) == FALSE

\* <KittyOwner<T>>::exists(random_hash).
KittyOwnerExists(random_hash) == random_hash \in DOMAIN KittyOwner

\* Mutant of NewKitty: the dna is left at its default instead of the hash.
NewKitty_DefaultDna(random_hash) ==
    [id |-> random_hash, dna |-> 0, price |-> 0, gen |-> 0]

\* The Kitty struct built for a new kitty.
NewKitty(random_hash) ==
    [id |-> random_hash, dna |-> random_hash, price |-> 0, gen |-> 0]

\* <Kitties<T>>::insert(random_hash, new_kitty).
InsertKitties(random_hash, new_kitty) ==
    Insert(Kitties, random_hash, new_kitty)

\* Mutant of InsertKittyOwner: the owner entry is not written.
InsertKittyOwner_Skip(random_hash, sender) == KittyOwner

\* <KittyOwner<T>>::insert(random_hash, &sender).
InsertKittyOwner(random_hash, sender) ==
    Insert(KittyOwner, random_hash, sender)

\* Mutant of InsertAllKittiesArray: the kitty is written at position 0
\* instead of at the end.
InsertAllKittiesArray_Front(all_kitties_count, random_hash) ==
    Insert(AllKittiesArray, 0, random_hash)

\* Mutant of InsertAllKittiesArray: positions are counted from 1.
InsertAllKittiesArray_OneBased(all_kitties_count, random_hash) ==
    Insert(AllKittiesArray, all_kitties_count + 1, random_hash)

\* <AllKittiesArray<T>>::insert(all_kitties_count, random_hash).
InsertAllKittiesArray(all_kitties_count, random_hash) ==
    Insert(AllKittiesArray, all_kitties_count, random_hash)

\* Mutant of PutAllKittiesCount: the stale count is written back.
PutAllKittiesCount_Stale(new_all_kitties_count) == AllKittiesCount

\* <AllKittiesCount<T>>::put(new_all_kitties_count).
PutAllKittiesCount(new_all_kitties_count) == new_all_kitties_count

\* Mutant of InsertAllKittiesIndex: the new count is stored as the position.
InsertAllKittiesIndex_OffByOne(random_hash, all_kitties_count) ==
    Insert(AllKittiesIndex, random_hash, all_kitties_count + 1)

\* <AllKittiesIndex<T>>::insert(random_hash, all_kitties_count).
InsertAllKittiesIndex(random_hash, all_kitties_count) ==
    Insert(AllKittiesIndex, random_hash, all_kitties_count)

\* Mutant of InsertOwnedKitty: an owner's existing entry is kept.
InsertOwnedKitty_KeepFirst(sender, random_hash) ==
    IF sender \in DOMAIN OwnedKitty
    THEN OwnedKitty
    ELSE Insert(OwnedKitty, sender, random_hash)

\* Mutant of InsertOwnedKitty: the entry is not written.
InsertOwnedKitty_Skip(sender, random_hash) == OwnedKitty

\* <OwnedKitty<T>>::insert(&sender, random_hash).
InsertOwnedKitty(sender, random_hash) ==
    Insert(OwnedKitty, sender, random_hash)

\* Mutant of MutateNonce: the nonce is written back without the increment.
MutateNonce_Skip(n) == n

\* <Nonce<T>>::mutate(|n| *n += 1): an unchecked u64 increment (it wraps in
\* a release build).
MutateNonce(n) == (n + 1) % (U64Max + 1)

\* Mutant of DepositEvent: the event is deposited twice.
DepositEvent_Twice(sender, random_hash) ==
    Append(Append(events, <<sender, random_hash>>), <<sender, random_hash>>)

\* Self::deposit_event(RawEvent::Created(sender, random_hash)).
DepositEvent(sender, random_hash) == Append(events, <<sender, random_hash>>)

\* ------------------------------------------------------------------- state
\* No create_kitty is in flight: no statement is current and no local is set.
IdleFrame ==
    [pc |-> "idle", origin |-> [kind |-> "Genesis", who |-> 0], seed |-> 0,
     sender |-> 0, all_kitties_count |-> 0, new_all_kitties_count |-> 0,
     nonce |-> 0, random_hash |-> 0]

Init ==
    /\ Kitties = <<>>
    /\ KittyOwner = <<>>
    /\ OwnedKitty = <<>>
    /\ AllKittiesArray = <<>>
    /\ AllKittiesCount = 0
    /\ AllKittiesIndex = <<>>
    /\ Nonce = 0
    /\ events = <<>>
    /\ call = [origin |-> [kind |-> "Genesis", who |-> 0], seed |-> 0]
    /\ result = "Genesis"
    /\ hashRange \in HashRanges
    /\ frame = IdleFrame
    /\ entry = <<>>

\* Mutant of Fail: the nonce is advanced before the error is returned.
Fail_AdvancesNonce(err) ==
    /\ result' = err
    /\ Nonce' = (Nonce + 1) % (U64Max + 1)
    /\ UNCHANGED <<Kitties, KittyOwner, OwnedKitty, AllKittiesArray,
                   AllKittiesCount, AllKittiesIndex, events>>

\* An early return of create_kitty with Err(err): nothing has been written.
Fail(err) ==
    /\ result' = err
    /\ UNCHANGED <<storage, events>>

\* fn create_kitty(origin) -> Result, with random_seed() returning seed.
create_kitty(origin, seed) ==
    /\ call' = [origin |-> origin, seed |-> seed]
    /\ UNCHANGED <<hashRange, frame, entry>>
    /\ IF ensure_signed(origin) = {}
       THEN Fail(ErrBadOrigin)
       ELSE
         LET sender == Unwrap(ensure_signed(origin))
             all_kitties_count == AllKittiesCount
             checked == checked_add(all_kitties_count, 1)
         IN
         IF checked = {}
         THEN Fail(ErrOverflow)
         ELSE
           LET new_all_kitties_count == Unwrap(checked)
               nonce == Nonce
               random_hash == RandomHash(seed, sender, nonce)
               new_kitty == NewKitty(random_hash)
           IN
           IF KittyOwnerExists(random_hash)
           THEN Fail(ErrDuplicate)
           ELSE
             /\ Kitties' = InsertKitties(random_hash, new_kitty)
             /\ KittyOwner' = InsertKittyOwner(random_hash, sender)
             /\ AllKittiesArray' = InsertAllKittiesArray(all_kitties_count, random_hash)
             /\ AllKittiesCount' = PutAllKittiesCount(new_all_kitties_count)
             /\ AllKittiesIndex' = InsertAllKittiesIndex(random_hash, all_kitties_count)
             /\ OwnedKitty' = InsertOwnedKitty(sender, random_hash)
             /\ Nonce' = MutateNonce(Nonce)
             /\ events' = DepositEvent(sender, random_hash)
             /\ result' = Ok

Next ==
    \E origin \in Origins, seed \in Seeds : create_kitty(origin, seed)

Spec == Init /\ [][Next]_vars

\* Genesis of a runtime built with a hash that is injective on the encoded
\* (seed, sender, nonce) triples.
InitInjective == Init /\ hashRange = WideHashRange

SpecInjective == InitInjective /\ [][Next]_vars

\* ------------------------------------------------- create_kitty, by statement
\* Mutant of ProgramOrder: the nonce is advanced before the collision check.
ProgramOrder_NonceFirst ==
    <<"ensure_signed", "read_count", "checked_add", "read_nonce",
      "random_hash", "mutate_Nonce", "ensure_unique", "insert_Kitties",
      "insert_KittyOwner", "insert_AllKittiesArray", "put_AllKittiesCount",
      "insert_AllKittiesIndex", "insert_OwnedKitty", "deposit_event",
      "return_ok">>

\* The statements of create_kitty, in the order of the source.
ProgramOrder ==
    <<"ensure_signed", "read_count", "checked_add", "read_nonce",
      "random_hash", "ensure_unique", "insert_Kitties", "insert_KittyOwner",
      "insert_AllKittiesArray", "put_AllKittiesCount",
      "insert_AllKittiesIndex", "insert_OwnedKitty", "mutate_Nonce",
      "deposit_event", "return_ok">>

\* The statement that follows statement pc.
NextPc(pc) ==
    LET i == CHOOSE k \in 1 .. Len(ProgramOrder) : ProgramOrder[k] = pc
    IN IF i < Len(ProgramOrder) THEN ProgramOrder[i + 1] ELSE "idle"

\* The extrinsic is dispatched: create_kitty is entered with this origin,
\* and random_seed() will return seed.
Enter(origin, seed) ==
    /\ frame.pc = "idle"
    /\ frame' = [IdleFrame EXCEPT !.pc = ProgramOrder[1],
                                  !.origin = origin, !.seed = seed]
    /\ call' = [origin |-> origin, seed |-> seed]
    /\ result' = "Pending"
    /\ entry' = <<storage, events>>
    /\ UNCHANGED <<storage, events, hashRange>>

\* The statement at pc is the current one.
At(pc) == frame.pc = pc

\* A statement that only sets locals: the frame moves on to f.
Local(f) ==
    /\ frame' = [f EXCEPT !.pc = NextPc(frame.pc)]
    /\ UNCHANGED <<storage, events, call, result, hashRange, entry>>

\* The ? operator and ensure! on an error: create_kitty returns Err(err).
ReturnErr(err) ==
    /\ Fail(err)
    /\ frame' = IdleFrame
    /\ entry' = <<>>
    /\ UNCHANGED <<call, hashRange>>

\* let sender = ensure_signed(origin)?;
stmt_ensure_signed ==
    /\ At("ensure_signed")
    /\ IF ensure_signed(frame.origin) = {}
       THEN ReturnErr(ErrBadOrigin)
       ELSE Local([frame EXCEPT !.sender = Unwrap(ensure_signed(frame.origin))])

\* let all_kitties_count = Self::all_kitties_count();
stmt_read_count ==
    /\ At("read_count")
    /\ Local([frame EXCEPT !.all_kitties_count = AllKittiesCount])

\* let new_all_kitties_count = all_kitties_count.checked_add(1).ok_or(..)?;
stmt_checked_add ==
    /\ At("checked_add")
    /\ LET checked == checked_add(frame.all_kitties_count, 1) IN
       IF checked = {}
       THEN ReturnErr(ErrOverflow)
       ELSE Local([frame EXCEPT !.new_all_kitties_count = Unwrap(checked)])

\* let nonce = <Nonce<T>>::get();
stmt_read_nonce ==
    /\ At("read_nonce")
    /\ Local([frame EXCEPT !.nonce = Nonce])

\* let random_hash = (random_seed(), &sender, nonce).using_encoded(hash);
stmt_random_hash ==
    /\ At("random_hash")
    /\ Local([frame EXCEPT !.random_hash =
                  RandomHash(frame.seed, frame.sender, frame.nonce)])

\* ensure!(!<KittyOwner<T>>::exists(random_hash), ..);
stmt_ensure_unique ==
    /\ At("ensure_unique")
    /\ IF KittyOwnerExists(frame.random_hash)
       THEN ReturnErr(ErrDuplicate)
       ELSE Local(frame)

\* A statement that writes: the frame moves on, the call is still pending.
Written ==
    /\ frame' = [frame EXCEPT !.pc = NextPc(frame.pc)]
    /\ UNCHANGED <<call, result, hashRange, entry>>

\* <Kitties<T>>::insert(random_hash, new_kitty);
stmt_insert_Kitties ==
    /\ At("insert_Kitties")
    /\ Kitties' = InsertKitties(frame.random_hash, NewKitty(frame.random_hash))
    /\ Written
    /\ UNCHANGED <<KittyOwner, OwnedKitty, AllKittiesArray, AllKittiesCount,
                   AllKittiesIndex, Nonce, events>>

\* <KittyOwner<T>>::insert(random_hash, &sender);
stmt_insert_KittyOwner ==
    /\ At("insert_KittyOwner")
    /\ KittyOwner' = InsertKittyOwner(frame.random_hash, frame.sender)
    /\ Written
    /\ UNCHANGED <<Kitties, OwnedKitty, AllKittiesArray, AllKittiesCount,
                   AllKittiesIndex, Nonce, events>>

\* <AllKittiesArray<T>>::insert(all_kitties_count, random_hash);
stmt_insert_AllKittiesArray ==
    /\ At("insert_AllKittiesArray")
    /\ AllKittiesArray' =
           InsertAllKittiesArray(frame.all_kitties_count, frame.random_hash)
    /\ Written
    /\ UNCHANGED <<Kitties, KittyOwner, OwnedKitty, AllKittiesCount,
                   AllKittiesIndex, Nonce, events>>

\* <AllKittiesCount<T>>::put(new_all_kitties_count);
stmt_put_AllKittiesCount ==
    /\ At("put_AllKittiesCount")
    /\ AllKittiesCount' = PutAllKittiesCount(frame.new_all_kitties_count)
    /\ Written
    /\ UNCHANGED <<Kitties, KittyOwner, OwnedKitty, AllKittiesArray,
                   AllKittiesIndex, Nonce, events>>

\* <AllKittiesIndex<T>>::insert(random_hash, all_kitties_count);
stmt_insert_AllKittiesIndex ==
    /\ At("insert_AllKittiesIndex")
    /\ AllKittiesIndex' =
           InsertAllKittiesIndex(frame.random_hash, frame.all_kitties_count)
    /\ Written
    /\ UNCHANGED <<Kitties, KittyOwner, OwnedKitty, AllKittiesArray,
                   AllKittiesCount, Nonce, events>>

\* <OwnedKitty<T>>::insert(&sender, random_hash);
stmt_insert_OwnedKitty ==
    /\ At("insert_OwnedKitty")
    /\ OwnedKitty' = InsertOwnedKitty(frame.sender, frame.random_hash)
    /\ Written
    /\ UNCHANGED <<Kitties, KittyOwner, AllKittiesArray, AllKittiesCount,
                   AllKittiesIndex, Nonce, events>>

\* <Nonce<T>>::mutate(|n| { *n += 1 });
stmt_mutate_Nonce ==
    /\ At("mutate_Nonce")
    /\ Nonce' = MutateNonce(Nonce)
    /\ Written
    /\ UNCHANGED <<Kitties, KittyOwner, OwnedKitty, AllKittiesArray,
                   AllKittiesCount, AllKittiesIndex, events>>

\* Self::deposit_event(RawEvent::Created(sender, random_hash));
stmt_deposit_event ==
    /\ At("deposit_event")
    /\ events' = DepositEvent(frame.sender, frame.random_hash)
    /\ Written
    /\ UNCHANGED storage

\* Ok(())
stmt_return_ok ==
    /\ At("return_ok")
    /\ result' = Ok
    /\ frame' = IdleFrame
    /\ entry' = <<>>
    /\ UNCHANGED <<storage, events, call, hashRange>>

\* The runtime applies one extrinsic at a time: a call is entered only when
\* none is in flight, and the call in flight runs its next statement.
NextSteps ==
    \/ \E origin \in Origins, seed \in Seeds : Enter(origin, seed)
    \/ stmt_ensure_signed
    \/ stmt_read_count
    \/ stmt_checked_add
    \/ stmt_read_nonce
    \/ stmt_random_hash
    \/ stmt_ensure_unique
    \/ stmt_insert_Kitties
    \/ stmt_insert_KittyOwner
    \/ stmt_insert_AllKittiesArray
    \/ stmt_put_AllKittiesCount
    \/ stmt_insert_AllKittiesIndex
    \/ stmt_insert_OwnedKitty
    \/ stmt_mutate_Nonce
    \/ stmt_deposit_event
    \/ stmt_return_ok

SpecSteps == Init /\ [][NextSteps]_vars

\* ------------------------------------------------------------------ claims
\* The positions of AllKittiesArray that hold id.
PositionsOf(id) == {i \in DOMAIN AllKittiesArray : AllKittiesArray[i] = id}

\* The identifiers AllKittiesArray holds.
Enumerated == {AllKittiesArray[i] : i \in DOMAIN AllKittiesArray}

\* C1 - Bijection invariant: every identifier stored in Kitties occupies
\* exactly one position i of AllKittiesArray, and for that position
\* AllKittiesIndex[id] = i and i < AllKittiesCount.
C1_Bijection ==
    \A id \in DOMAIN Kitties :
        /\ Cardinality(PositionsOf(id)) = 1
        /\ \A i \in PositionsOf(id) :
               /\ id \in DOMAIN AllKittiesIndex
               /\ AllKittiesIndex[id] = i
               /\ i < AllKittiesCount

\* Several kitties are enumerated and the latest call was a rejected one.
C1_Witness ==
    /\ Cardinality(DOMAIN Kitties) >= 2
    /\ Cardinality(DOMAIN AllKittiesArray) >= 2
    /\ result \in {ErrDuplicate, ErrBadOrigin}

\* C2 - Count invariant: AllKittiesCount equals the number of keys of the
\* Kitties map.
C2_CountInvariant == AllKittiesCount = Cardinality(DOMAIN Kitties)

\* The count has grown past one and has followed the registry.
C2_Witness ==
    /\ AllKittiesCount >= 2
    /\ Cardinality(DOMAIN Kitties) = AllKittiesCount
    /\ result = Ok

\* C3 - Global uniqueness: no two successful creations produce the same
\* identifier.  A successful create_kitty adds exactly one identifier, which
\* had no record, owner, position or enumeration entry before the call, and
\* it is the identifier the Created event carries; the identifiers of the
\* events deposited so far are pairwise distinct.
C3_FreshIdentifier ==
    result' = Ok =>
        /\ Cardinality((DOMAIN Kitties') \ (DOMAIN Kitties)) = 1
        /\ \A id \in (DOMAIN Kitties') \ (DOMAIN Kitties) :
               /\ id \notin DOMAIN KittyOwner
               /\ id \notin DOMAIN AllKittiesIndex
               /\ id \notin Enumerated
               /\ events' = Append(events, <<call'.origin.who, id>>)

C3_DistinctIdentifiers ==
    \A i, j \in 1 .. Len(events) : i # j => events[i][2] # events[j][2]

C3_GlobalUniqueness ==
    [][C3_FreshIdentifier]_vars /\ [](C3_DistinctIdentifiers)

\* Under the colliding hash, two kitties exist and a call whose hash collided
\* with one of them has just been rejected.
C3_Witness ==
    /\ hashRange = SmallHashRange
    /\ Len(events) >= 2
    /\ result = ErrDuplicate
    /\ call.origin.kind = "Signed"
    /\ RandomHash(call.seed, call.origin.who, Nonce) \in DOMAIN Kitties

\* The call of this step was made by a signed origin.
SignedCall == call'.origin.kind = "Signed"

\* The identifier the call of this step derives: hash(seed, caller, Nonce).
CandidateId == RandomHash(call'.seed, call'.origin.who, Nonce)

\* C4 - Overflow atomicity: when AllKittiesCount equals the maximum u64
\* value, create_kitty by a signed caller returns the overflow error and
\* leaves all seven storage items as they were.
C4_OverflowStep ==
    (SignedCall /\ AllKittiesCount = U64Max) =>
        /\ result' = ErrOverflow
        /\ UNCHANGED storage

C4_OverflowAtomicity == [][C4_OverflowStep]_vars

\* The count has reached the maximum and a signed call was rejected for it.
C4_Witness ==
    /\ AllKittiesCount = U64Max
    /\ call.origin.kind = "Signed"
    /\ result = ErrOverflow

\* C5 as stated - Duplicate atomicity: whenever hash(seed, caller, Nonce) is
\* an identifier already present in the registry, create_kitty returns the
\* duplicate-identifier error and leaves all seven storage items unchanged.
C5_OriginalStep ==
    (SignedCall /\ CandidateId \in DOMAIN Kitties) =>
        /\ result' = ErrDuplicate
        /\ UNCHANGED storage

C5_Original == [][C5_OriginalStep]_vars

\* C5 as amended - whenever hash(seed, caller, Nonce) is an identifier
\* already present in the registry, create_kitty by a signed caller leaves
\* all seven storage items unchanged (the record, owner and position of the
\* present kitty and the Nonce included); it returns the
\* duplicate-identifier error when AllKittiesCount is below the maximum u64
\* value, and the overflow error when AllKittiesCount is at the maximum.
C5_AmendedStep ==
    (SignedCall /\ CandidateId \in DOMAIN Kitties) =>
        /\ UNCHANGED storage
        /\ Kitties'[CandidateId] = Kitties[CandidateId]
        /\ KittyOwner'[CandidateId] = KittyOwner[CandidateId]
        /\ AllKittiesIndex'[CandidateId] = AllKittiesIndex[CandidateId]
        /\ Nonce' = Nonce
        /\ AllKittiesCount < U64Max => result' = ErrDuplicate
        /\ AllKittiesCount = U64Max => result' = ErrOverflow

C5_DuplicateAtomicity == [][C5_AmendedStep]_vars

\* With room left in the count, a signed call whose hash is the identifier of
\* a kitty in the registry has been rejected as a duplicate.
C5_Witness ==
    /\ AllKittiesCount < U64Max
    /\ AllKittiesCount >= 1
    /\ call.origin.kind = "Signed"
    /\ RandomHash(call.seed, call.origin.who, Nonce) \in DOMAIN Kitties
    /\ result = ErrDuplicate

\* C6 - Owner consistency: KittyOwner has an entry for id if and only if
\* Kitties has one; so a signed call with room left in the count is rejected
\* by the collision check exactly when its identifier is in Kitties.
C6_SameKeys == DOMAIN KittyOwner = DOMAIN Kitties

C6_CollisionStep ==
    (SignedCall /\ AllKittiesCount < U64Max) =>
        (result' = ErrDuplicate <=> CandidateId \in DOMAIN Kitties)

C6_OwnerConsistency == [](C6_SameKeys) /\ [][C6_CollisionStep]_vars

\* Two kitties have owners, and the collision check has just rejected a call
\* made by an account other than the owner of the kitty it collided with.
C6_Witness ==
    /\ Cardinality(DOMAIN KittyOwner) >= 2
    /\ result = ErrDuplicate
    /\ \E id \in DOMAIN KittyOwner :
           /\ id = RandomHash(call.seed, call.origin.who, Nonce)
           /\ KittyOwner[id] # call.origin.who

\* The identifiers this step adds to Kitties.
Added == (DOMAIN Kitties') \ (DOMAIN Kitties)

\* C7 - Sequencer discipline: Nonce is 0 at genesis; a successful
\* create_kitty increases it by exactly one, a failed one leaves it
\* unchanged, and it never decreases.
C7_NonceStep ==
    /\ result' = Ok => Nonce' = Nonce + 1
    /\ result' # Ok => Nonce' = Nonce
    /\ Nonce' >= Nonce

C7_SequencerDiscipline == (Nonce = 0) /\ [][C7_NonceStep]_vars

\* The nonce has advanced twice and a failed call has left it there.
C7_Witness ==
    /\ Nonce >= 2
    /\ result \in {ErrBadOrigin, ErrOverflow, ErrDuplicate}

\* C8 - Single-slot owner pointer: when a caller whose OwnedKitty entry is
\* id1 creates successfully and obtains id3, OwnedKitty[caller] becomes id3
\* (another identifier), while id1 stays in Kitties with the same record,
\* KittyOwner[id1] is still the caller and id1 keeps its position in
\* AllKittiesIndex and AllKittiesArray.
C8_SingleSlotStep ==
    (result' = Ok /\ call'.origin.who \in DOMAIN OwnedKitty) =>
        LET caller == call'.origin.who
            id1 == OwnedKitty[caller]
        IN
        /\ \E id3 \in Added :
               /\ id3 # id1
               /\ caller \in DOMAIN OwnedKitty'
               /\ OwnedKitty'[caller] = id3
        /\ id1 \in DOMAIN Kitties
        /\ id1 \in DOMAIN Kitties'
        /\ Kitties'[id1] = Kitties[id1]
        /\ id1 \in DOMAIN KittyOwner'
        /\ KittyOwner'[id1] = caller
        /\ id1 \in DOMAIN AllKittiesIndex
        /\ id1 \in DOMAIN AllKittiesIndex'
        /\ AllKittiesIndex'[id1] = AllKittiesIndex[id1]
        /\ AllKittiesIndex[id1] \in DOMAIN AllKittiesArray
        /\ AllKittiesIndex[id1] \in DOMAIN AllKittiesArray'
        /\ AllKittiesArray[AllKittiesIndex[id1]] = id1
        /\ AllKittiesArray'[AllKittiesIndex[id1]] = id1

C8_SingleSlotOwnerPointer == [][C8_SingleSlotStep]_vars

\* Scenario C: the caller created the first kitty, another account the
\* second, and the caller has just created the third, to which its
\* OwnedKitty entry now points.
C8_Witness ==
    /\ result = Ok
    /\ AllKittiesCount = 3
    /\ KittyOwner[AllKittiesArray[0]] = call.origin.who
    /\ KittyOwner[AllKittiesArray[1]] # call.origin.who
    /\ KittyOwner[AllKittiesArray[2]] = call.origin.who
    /\ OwnedKitty[call.origin.who] = AllKittiesArray[2]

\* C9 - Frame of a creation: a create_kitty by caller X leaves the
\* OwnedKitty entry of every account other than X as it was, and for every
\* identifier already present it leaves its Kitties record, its KittyOwner
\* entry, its AllKittiesIndex value and the AllKittiesArray position it
\* occupies as they were; no call removes or modifies a Kitties entry.
C9_FrameStep ==
    /\ \A y \in AccountId \ {call'.origin.who} :
           /\ (y \in DOMAIN OwnedKitty') <=> (y \in DOMAIN OwnedKitty)
           /\ y \in DOMAIN OwnedKitty =>
                  (y \in DOMAIN OwnedKitty' /\ OwnedKitty'[y] = OwnedKitty[y])
    /\ \A id \in DOMAIN Kitties :
           /\ id \in DOMAIN Kitties'
           /\ Kitties'[id] = Kitties[id]
           /\ id \in DOMAIN KittyOwner
           /\ id \in DOMAIN KittyOwner'
           /\ KittyOwner'[id] = KittyOwner[id]
           /\ id \in DOMAIN AllKittiesIndex
           /\ id \in DOMAIN AllKittiesIndex'
           /\ AllKittiesIndex'[id] = AllKittiesIndex[id]
           /\ AllKittiesIndex[id] \in DOMAIN AllKittiesArray
           /\ AllKittiesIndex[id] \in DOMAIN AllKittiesArray'
           /\ AllKittiesArray[AllKittiesIndex[id]] = id
           /\ AllKittiesArray'[AllKittiesIndex[id]] = id

C9_CreationFrame == [][C9_FrameStep]_vars

\* Scenario B: an account created a kitty, and another account has just
\* created a later one; the first account's OwnedKitty entry is in place.
C9_Witness ==
    /\ result = Ok
    /\ AllKittiesCount >= 2
    /\ \E y \in (DOMAIN OwnedKitty) \ {call.origin.who} :
           /\ KittyOwner[OwnedKitty[y]] = y
           /\ AllKittiesIndex[OwnedKitty[y]] < AllKittiesCount - 1
           /\ Kitties[OwnedKitty[y]] = NewKitty(OwnedKitty[y])

\* C10 - Event discipline: a successful create_kitty deposits exactly one
\* Created(caller, id) event, id being the identifier it stored and
\* KittyOwner[id] the caller; a failed call deposits none; the number of
\* Created events equals AllKittiesCount.
C10_EventStep ==
    /\ result' = Ok =>
           \E id \in Added :
               /\ events' = Append(events, <<call'.origin.who, id>>)
               /\ id \in DOMAIN KittyOwner'
               /\ KittyOwner'[id] = call'.origin.who
    /\ result' # Ok => events' = events

C10_EventCount == Len(events) = AllKittiesCount

C10_EventDiscipline == [](C10_EventCount) /\ [][C10_EventStep]_vars

\* Two events have been deposited, the latest by the owner of the kitty it
\* names, and a failed call has since left the events as they were.
C10_Witness ==
    /\ Len(events) >= 2
    /\ result \in {ErrBadOrigin, ErrOverflow, ErrDuplicate}
    /\ KittyOwner[events[Len(events)][2]] = events[Len(events)][1]
    /\ AllKittiesArray[AllKittiesCount - 1] = events[Len(events)][2]

\* C11 - Unauthenticated origin: create_kitty invoked with an origin that is
\* not a signed account returns the bad-origin error, writes none of the
\* seven storage items and deposits no event.
C11_UnsignedStep ==
    call'.origin.kind # "Signed" =>
        /\ result' = ErrBadOrigin
        /\ UNCHANGED storage
        /\ events' = events

C11_UnauthenticatedOrigin == [][C11_UnsignedStep]_vars

\* A Root or Inherent origin has called create_kitty on a registry that holds
\* a kitty, and was turned away.
C11_Witness ==
    /\ call.origin.kind \in {"Root", "Inherent"}
    /\ result = ErrBadOrigin
    /\ AllKittiesCount >= 1

\* The errors create_kitty can return.
Errors == {ErrBadOrigin, ErrOverflow, ErrDuplicate}

\* The statements of create_kitty that precede its first storage write.
BeforeWrites ==
    {"ensure_signed", "read_count", "checked_add", "read_nonce",
     "random_hash", "ensure_unique"}

\* C12 - Verify-first, write-last, statement by statement: while the call in
\* flight is at a statement up to the collision check, storage and events
\* are as they were when the call was entered; a statement returns an error
\* only from the signature check, the checked_add or the collision check,
\* and then nothing has been written; once something has been written no
\* statement returns an error; and a call that returns Ok has written all
\* seven storage items and deposited its one event.
C12_ChecksBeforeWrites ==
    frame.pc \in BeforeWrites => <<storage, events>> = entry

C12_ErrorStep ==
    result' \in Errors =>
        /\ frame.pc \in {"ensure_signed", "checked_add", "ensure_unique"}
        /\ <<storage, events>> = entry
        /\ UNCHANGED <<storage, events>>

C12_AfterFirstWriteStep ==
    (frame.pc # "idle" /\ <<storage, events>> # entry) => result' \notin Errors

C12_OkStep ==
    result' = Ok =>
        /\ \A i \in 1 .. 7 : storage'[i] # entry[1][i]
        /\ events' = Append(entry[2], <<frame.sender, frame.random_hash>>)

C12_VerifyFirstWriteLast ==
    /\ [](C12_ChecksBeforeWrites)
    /\ [][C12_ErrorStep /\ C12_AfterFirstWriteStep /\ C12_OkStep]_vars

\* A second creation is half written: Kitties, KittyOwner, AllKittiesArray,
\* AllKittiesCount and AllKittiesIndex have their new entries, OwnedKitty,
\* Nonce and events do not.
C12_Witness ==
    /\ frame.pc = "insert_OwnedKitty"
    /\ AllKittiesCount = 2
    /\ frame.random_hash \in DOMAIN Kitties
    /\ frame.random_hash \notin DOMAIN entry[1][1]
    /\ OwnedKitty = entry[1][3]
    /\ Nonce = entry[1][7]
    /\ events = entry[2]

\* C13 - Effect of a successful creation: for a signed caller s, with
\* AllKittiesCount = c below the maximum and h = hash(seed, s, Nonce) without
\* a KittyOwner entry, create_kitty returns Ok and afterwards
\* Kitties[h] = {id: h, dna: h, price: 0, gen: 0}, KittyOwner[h] = s,
\* OwnedKitty[s] = h, AllKittiesArray[c] = h, AllKittiesIndex[h] = c,
\* AllKittiesCount = c + 1 and Nonce is one more; from genesis the first
\* creation gives count 1 and position 0.
C13_EffectStep ==
    (SignedCall /\ AllKittiesCount < U64Max /\ CandidateId \notin DOMAIN KittyOwner) =>
        LET s == call'.origin.who
            c == AllKittiesCount
            h == CandidateId
        IN
        /\ result' = Ok
        /\ h \in DOMAIN Kitties'
        /\ Kitties'[h] = [id |-> h, dna |-> h, price |-> 0, gen |-> 0]
        /\ h \in DOMAIN KittyOwner'
        /\ KittyOwner'[h] = s
        /\ s \in DOMAIN OwnedKitty'
        /\ OwnedKitty'[s] = h
        /\ c \in DOMAIN AllKittiesArray'
        /\ AllKittiesArray'[c] = h
        /\ h \in DOMAIN AllKittiesIndex'
        /\ AllKittiesIndex'[h] = c
        /\ AllKittiesCount' = c + 1
        /\ Nonce' = Nonce + 1
        /\ c = 0 => (AllKittiesCount' = 1 /\ AllKittiesArray'[0] = h)

C13_SuccessfulCreation == [][C13_EffectStep]_vars

\* Scenario A: the first creation from genesis has succeeded, with a hash
\* whose value differs from the default (zero) hash.
C13_Witness ==
    /\ result = Ok
    /\ AllKittiesCount = 1
    /\ Nonce = 1
    /\ call.origin.kind = "Signed"
    /\ AllKittiesArray[0] = RandomHash(call.seed, call.origin.who, 0)
    /\ AllKittiesArray[0] # 0
    /\ Kitties[AllKittiesArray[0]].dna = AllKittiesArray[0]
    /\ OwnedKitty[call.origin.who] = AllKittiesArray[0]

\* C14 - Dense enumeration: AllKittiesArray has an entry at position i if
\* and only if i < AllKittiesCount, each entry is an identifier present in
\* Kitties, no two positions hold the same identifier, and the k-th
\* successful creation (k from 0) occupies position k, which no later call
\* changes.
C14_Dense ==
    /\ DOMAIN AllKittiesArray = 0 .. (AllKittiesCount - 1)
    /\ \A i \in DOMAIN AllKittiesArray : AllKittiesArray[i] \in DOMAIN Kitties
    /\ \A i, j \in DOMAIN AllKittiesArray :
           i # j => AllKittiesArray[i] # AllKittiesArray[j]
    /\ \A k \in 0 .. (Len(events) - 1) :
           /\ k \in DOMAIN AllKittiesArray
           /\ AllKittiesArray[k] = events[k + 1][2]

C14_PositionsKeptStep ==
    /\ \A i \in DOMAIN AllKittiesArray :
           /\ i \in DOMAIN AllKittiesArray'
           /\ AllKittiesArray'[i] = AllKittiesArray[i]
    /\ \A k \in 1 .. Len(events) :
           /\ k <= Len(events')
           /\ events'[k] = events[k]

C14_DenseEnumeration == [](C14_Dense) /\ [][C14_PositionsKeptStep]_vars

\* Three kitties fill positions 0, 1 and 2, and a rejected call has left the
\* array as it was.
C14_Witness ==
    /\ AllKittiesCount = 3
    /\ DOMAIN AllKittiesArray = {0, 1, 2}
    /\ result \in Errors

\* The accounts that have completed a successful creation: the callers of the
\* Created events.
Creators == {events[i][1] : i \in 1 .. Len(events)}

\* C15 - Owner lookup definedness: OwnedKitty has an entry for an account if
\* and only if that account has completed at least one successful creation.
C15_OwnerLookupDefinedness == DOMAIN OwnedKitty = Creators

\* One account has created a kitty; another account, whose only call was
\* rejected as a duplicate, has no OwnedKitty entry.
C15_Witness ==
    /\ call.origin.kind = "Signed"
    /\ result = ErrDuplicate
    /\ call.origin.who \notin DOMAIN OwnedKitty
    /\ call.origin.who \notin Creators
    /\ DOMAIN OwnedKitty # {}

\* C16 - Nonce equals AllKittiesCount in every reachable state, so the
\* unchecked increment of Nonce never overflows: it runs only with Nonce
\* below the maximum, and a signed call made with Nonce at the maximum is
\* rejected by the checked_add on the count, Nonce unchanged.
C16_NonceIsCount == Nonce = AllKittiesCount

C16_IncrementStep ==
    /\ result' = Ok => (Nonce < U64Max /\ Nonce' = Nonce + 1)
    /\ (SignedCall /\ Nonce = U64Max) =>
           (result' = ErrOverflow /\ Nonce' = Nonce)

C16_NonceNeverOverflows == [](C16_NonceIsCount) /\ [][C16_IncrementStep]_vars

\* Nonce and count have both reached the maximum, and a signed call was
\* rejected by the checked_add.
C16_Witness ==
    /\ Nonce = U64Max
    /\ AllKittiesCount = U64Max
    /\ call.origin.kind = "Signed"
    /\ result = ErrOverflow

\* The identifiers whose KittyOwner entry is account a.
OwnedBy(a) == {id \in DOMAIN KittyOwner : KittyOwner[id] = a}

\* C17 - Whenever OwnedKitty[a] is id, id is present in Kitties,
\* KittyOwner[id] is a, and id has the highest enumeration position among
\* the identifiers whose KittyOwner is a.
C17_OwnerPointer ==
    \A a \in DOMAIN OwnedKitty :
        LET id == OwnedKitty[a] IN
        /\ id \in DOMAIN Kitties
        /\ id \in DOMAIN KittyOwner
        /\ KittyOwner[id] = a
        /\ id \in DOMAIN AllKittiesIndex
        /\ \A other \in OwnedBy(a) :
               /\ other \in DOMAIN AllKittiesIndex
               /\ AllKittiesIndex[other] <= AllKittiesIndex[id]

\* Two accounts own kitties, one of them two; its OwnedKitty entry names the
\* later of its two.
C17_Witness ==
    \E a, b \in DOMAIN OwnedKitty :
        /\ a # b
        /\ Cardinality(OwnedBy(a)) = 2
        /\ Cardinality(OwnedBy(b)) = 1
        /\ \E first \in OwnedBy(a) :
               AllKittiesIndex[first] < AllKittiesIndex[OwnedKitty[a]]

\* The hash separates every two (seed, sender, nonce) triples.
HashInjective ==
    \A s1, s2 \in Seeds, a1, a2 \in AccountId, n1, n2 \in U64 :
        <<s1, a1, n1>> # <<s2, a2, n2>> =>
            RandomHash(s1, a1, n1) # RandomHash(s2, a2, n2)

\* C18 - With a hash that is injective on (seed, caller, nonce) triples, the
\* duplicate-identifier error is never returned: every signed create_kitty
\* call made with AllKittiesCount below the maximum succeeds.
C18_NoDuplicate == result # ErrDuplicate

C18_SignedSucceedsStep ==
    (SignedCall /\ AllKittiesCount < U64Max) => result' = Ok

C18_DuplicateUnreachable ==
    [](C18_NoDuplicate) /\ [][C18_SignedSucceedsStep]_vars

\* The seed of the call that produced identifier h, read back from the
\* encoding (the wide hash keeps the encoding whole).
SeedOf(h) == (h \div NumAccounts) % NumSeeds

\* Under an injective hash, the first two creations were made by the same
\* caller with the same seed, and both succeeded.
C18_Witness ==
    /\ HashInjective
    /\ Len(events) >= 2
    /\ events[1][1] = events[2][1]
    /\ SeedOf(events[1][2]) = SeedOf(events[2][2])
    /\ events[1][2] = RandomHash(SeedOf(events[1][2]), events[1][1], 0)
    /\ events[2][2] = RandomHash(SeedOf(events[1][2]), events[1][1], 1)

====
